---- MODULE Spec2Model ----
(***************************************************************************)
(* Model of next_ev (src/main.rs): the pattern finders (round number,      *)
(* repeated digit, ascending / descending sequence), their aggregation in  *)
(* MultiPatternFinder, and the candidate selection of main.                *)
(*                                                                         *)
(* u64 values do not fit TLC's integers, so a u64 is three limbs of seven  *)
(* decimal digits each, most significant first.                            *)
(* Every arithmetic step of the program that can leave the u64 range       *)
(* yields the wrapped value together with an overflow flag; a build with   *)
(* overflow checks (cargo's dev profile) panics on the flag, a build       *)
(* without them (release profile) carries on with the wrapped value.       *)
(***************************************************************************)
EXTENDS Integers, Sequences, FiniteSets, TLC

VARIABLES overflow_checks, op, n, base, ret, reference_date, cur_date, cands

vars == <<overflow_checks, op, n, base, ret, reference_date, cur_date, cands>>

(* ---------------------------------------------------------------------- *)
(* Bounds of the explored inputs.                                          *)
(* ---------------------------------------------------------------------- *)
MaxSmall == 24
NearDelta == 2
MaxElapsed == 9

(* ---------------------------------------------------------------------- *)
(* u64 arithmetic on limbs: <<h, m, l>> is h * Limb^2 + m * Limb + l with  *)
(* 0 <= m, l < Limb.  Intermediate results may exceed 2^64; U64 wraps.     *)
(* ---------------------------------------------------------------------- *)
Limb == 10000000

Carry(t) ==
    LET m == t[2] + (t[3] \div Limb)
        h == t[1] + (m \div Limb)
    IN  <<h, m % Limb, t[3] % Limb>>

\* a machine-size natural as a limb number
Big(x) == Carry(<<0, 0, x>>)

\* the machine-size value of a limb number known to be small
BigToNat(a) == a[2] * Limb + a[3]

BigZero == <<0, 0, 0>>

BigAdd(a, b) == Carry(<<a[1] + b[1], a[2] + b[2], a[3] + b[3]>>)

\* a - b for a >= b
BigSub(a, b) == Carry(<<a[1] - b[1], a[2] - b[2], a[3] - b[3]>>)

\* a * m for 0 <= m <= 200
BigMul(a, m) == Carry(<<a[1] * m, a[2] * m, a[3] * m>>)

\* floor(a / d) for 0 < d <= 200
BigDiv(a, d) ==
    LET x2 == (a[1] % d) * Limb + a[2]
        x3 == (x2 % d) * Limb + a[3]
    IN  <<a[1] \div d, x2 \div d, x3 \div d>>

BigLT(a, b) ==
    \/ a[1] < b[1]
    \/ a[1] = b[1] /\ a[2] < b[2]
    \/ a[1] = b[1] /\ a[2] = b[2] /\ a[3] < b[3]

BigLE(a, b) == a = b \/ BigLT(a, b)

\* 2^64 = 18446744073709551616
Two64 == <<184467, 4407370, 9551616>>

\* u64::MAX = 18446744073709551615
U64Max == <<184467, 4407370, 9551615>>

\* the result of a u64 operation whose exact value is x < 200 * 2^64:
\* the wrapped value and whether it left the u64 range
U64(x) ==
    LET k == CHOOSE j \in 0..200 :
                 BigLE(BigMul(Two64, j), x) /\ BigLT(x, BigMul(Two64, j + 1))
    IN  [v |-> BigSub(x, BigMul(Two64, k)), ovf |-> k > 0]

\* base^e, up to the first power beyond the u64 range
PowTable ==
    LET RECURSIVE P(_, _)
        P(b, e) == IF e = 0 THEN Big(1) ELSE BigMul(P(b, e - 1), b)
    IN  [b \in {10, 16} |-> [e \in 0..(IF b = 10 THEN 20 ELSE 16) |-> P(b, e)]]

BigPow(b, e) == PowTable[b][e]

(* ---------------------------------------------------------------------- *)
(* Results of a call: a returned Pattern, or a panic (no value returned).  *)
(* ---------------------------------------------------------------------- *)
Pattern(v, b) == [status |-> "ok", value |-> v, base |-> b]

Panic == [status |-> "panic", value |-> BigZero, base |-> 0]

Bases == {10, 16}

(* ---------------------------------------------------------------------- *)
(* Digit arithmetic.                                                       *)
(*                                                                         *)
(* digit_count evaluates ceil(ln(n as f64 + 1.) / ln(base as f64)) in      *)
(* binary64.  The result is monotone in n, so it is the number of k whose  *)
(* threshold (the least n for which the binary64 expression exceeds k) is  *)
(* <= n.  Up to base^14 (base 10) and base^12 (base 16) the threshold is   *)
(* base^k and the count is exact; above, n + 1 is no longer told apart     *)
(* from base^k by the logarithm and the threshold lies FloatSlack later,   *)
(* so the values base^k .. base^k + FloatSlack - 1 get one digit too few.  *)
(* ---------------------------------------------------------------------- *)
FloatSlack(b, k) ==
    IF b = 10 THEN
        CASE k = 15 -> 2
          [] k = 16 -> 70
          [] k = 17 -> 457
          [] k = 18 -> 9281
          [] k = 19 -> 68608
          [] OTHER  -> 0
    ELSE
        CASE k = 13 -> 4
          [] k = 14 -> 105
          [] k = 15 -> 1920
          [] OTHER  -> 0

\* largest k with base^k in the u64 range
MaxPower(b) == IF b = 10 THEN 19 ELSE 15

DigitThreshold ==
    [b \in Bases |->
        [k \in 0..MaxPower(b) |-> BigAdd(BigPow(b, k), Big(FloatSlack(b, k)))]]

digit_count(x, b) ==
    Cardinality({k \in 0..MaxPower(b) : BigLE(DigitThreshold[b][k], x)})

RECURSIVE BigDivPow(_, _, _)
BigDivPow(a, b, e) == IF e = 0 THEN a ELSE BigDivPow(BigDiv(a, b), b, e - 1)

\* digit_count(n) = 0 (n = 0): the exponent 0 - 1 underflows u32, which
\* panics with overflow checks; without them base^(2^32 - 1) wraps to 0 for
\* the even bases and the division by zero panics.
first_digit(x, b) ==
    LET d == digit_count(x, b)
    IN  IF d = 0 THEN [panic |-> TRUE, digit |-> 0]
        ELSE [panic |-> FALSE, digit |-> BigToNat(BigDivPow(x, b, d - 1)) % 256]

(* ---------------------------------------------------------------------- *)
(* RoundNumberFinder                                                       *)
(* ---------------------------------------------------------------------- *)
MAX_EXPONENT == 19

\* (first_digit + 1) as u64 * base.pow(digits - 1)
RoundProduct(fd, digits, b) == U64(BigMul(BigPow(b, digits - 1), fd + 1))

RoundNumberFinder_find_next(x, b) ==
    LET under  == x = BigZero
        m      == IF under THEN U64Max ELSE BigSub(x, Big(1))
        digits == digit_count(m, b)
        fd     == first_digit(m, b)
    IN  IF under /\ overflow_checks THEN Panic
        ELSE IF fd.panic THEN Panic
        ELSE IF digits > MAX_EXPONENT \/ digits < 2 THEN Pattern(BigZero, b)
        ELSE LET prod == RoundProduct(fd.digit, digits, b)
             IN  IF prod.ovf /\ overflow_checks THEN Panic
                 ELSE Pattern(prod.v, b)

(* ---------------------------------------------------------------------- *)
(* RepeatedNumberFinder                                                    *)
(* ---------------------------------------------------------------------- *)
RepeatStep(res, fd, b) ==
    LET mul == U64(BigMul(res, b))
        add == U64(BigAdd(mul.v, Big(fd)))
    IN  [v |-> add.v, ovf |-> mul.ovf \/ add.ovf]

RECURSIVE RepeatLoop(_, _, _, _, _)
RepeatLoop(res, ovf, fd, b, i) ==
    IF i <= 0 THEN [v |-> res, ovf |-> ovf]
    ELSE LET step == RepeatStep(res, fd, b)
         IN  IF step.ovf THEN RepeatLoop(step.v, TRUE, fd, b, i - 1)
             ELSE RepeatLoop(step.v, ovf, fd, b, i - 1)

get_repeat_number(fd, digits, b) == RepeatLoop(Big(fd), FALSE, fd, b, digits - 1)

\* RepeatedNumberFinder::find_next with res > n in place of res >= n
RepeatedNumberFinder_find_next_strict(x, b) ==
    LET digits == digit_count(x, b)
        fd     == first_digit(x, b)
        res    == get_repeat_number(fd.digit, digits, b)
        next   == get_repeat_number(fd.digit + 1, digits, b)
    IN  IF fd.panic THEN Panic
        ELSE IF res.ovf /\ overflow_checks THEN Panic
        ELSE IF BigLT(x, res.v) THEN Pattern(res.v, b)
        ELSE IF next.ovf /\ overflow_checks THEN Panic
        ELSE Pattern(next.v, b)

RepeatedNumberFinder_find_next(x, b) ==
    LET digits == digit_count(x, b)
        fd     == first_digit(x, b)
        res    == get_repeat_number(fd.digit, digits, b)
        next   == get_repeat_number(fd.digit + 1, digits, b)
    IN  IF fd.panic THEN Panic
        ELSE IF res.ovf /\ overflow_checks THEN Panic
        ELSE IF BigLE(x, res.v) THEN Pattern(res.v, b)
        ELSE IF next.ovf /\ overflow_checks THEN Panic
        ELSE Pattern(next.v, b)

(* ---------------------------------------------------------------------- *)
(* SequenceFinder                                                          *)
(* ---------------------------------------------------------------------- *)
SequenceStep(res, i, b, reverse) ==
    IF reverse THEN
        LET d   == digit_count(res, b)
            pw  == U64(BigPow(b, d))
            mul == U64(BigMul(pw.v, i))
            add == U64(BigAdd(res, mul.v))
        IN  [v |-> add.v, ovf |-> pw.ovf \/ mul.ovf \/ add.ovf]
    ELSE
        LET mul == U64(BigMul(res, b))
            add == U64(BigAdd(mul.v, Big(i)))
        IN  [v |-> add.v, ovf |-> mul.ovf \/ add.ovf]

RECURSIVE SequenceLoop(_, _, _, _, _)
SequenceLoop(res, i, x, b, reverse) ==
    IF i > b - 1 THEN Pattern(BigZero, b)
    ELSE IF BigLE(x, res) THEN Pattern(res, b)
    ELSE LET step == SequenceStep(res, i, b, reverse)
         IN  IF step.ovf /\ overflow_checks THEN Panic
             ELSE SequenceLoop(step.v, i + 1, x, b, reverse)

SequenceFinder_find_next(reverse, x, b) == SequenceLoop(Big(1), 2, x, b, reverse)

(* ---------------------------------------------------------------------- *)
(* MultiPatternFinder                                                      *)
(* ---------------------------------------------------------------------- *)
MultiPatternFinder_new ==
    << [kind |-> "round",    reverse |-> FALSE],
       [kind |-> "repeated", reverse |-> FALSE],
       [kind |-> "sequence", reverse |-> FALSE],
       [kind |-> "sequence", reverse |-> FALSE],
       [kind |-> "sequence", reverse |-> TRUE] >>

\* dispatch of PatternFinder::find_next on a boxed finder
PatternFinder_find_next(f, x, b) ==
    CASE f.kind = "round"    -> RoundNumberFinder_find_next(x, b)
      [] f.kind = "repeated" -> RepeatedNumberFinder_find_next(x, b)
      [] f.kind = "sequence" -> SequenceFinder_find_next(f.reverse, x, b)

NonSentinel(p) == p.value # BigZero

\* the position of s[i] after a stable sort on value: the elements that
\* compare less, and the equal ones that come earlier, precede it
RankByValue(s, i) ==
    Cardinality({j \in 1..Len(s) :
                    \/ BigLT(s[j].value, s[i].value)
                    \/ (s[j].value = s[i].value /\ j < i)}) + 1

\* the stable sort_by on value
SortByValue(s) ==
    [k \in 1..Len(s) |-> s[CHOOSE i \in 1..Len(s) : RankByValue(s, i) = k]]

\* the non-sentinel results, in finder order (panic when a finder panicked)
Collect(found) ==
    IF \E i \in 1..Len(found) : found[i].status = "panic"
    THEN [status |-> "panic", list |-> <<>>]
    ELSE [status |-> "ok", list |-> SelectSeq(found, NonSentinel)]

\* the result of every finder, in finder order
FindAll(x, b) ==
    LET finders == MultiPatternFinder_new
    IN  [i \in 1..Len(finders) |-> PatternFinder_find_next(finders[i], x, b)]

\* find_patterns without the final sort_by
find_patterns_unsorted(x, b) ==
    CHOOSE r \in {Collect(found) : found \in {FindAll(x, b)}} : TRUE

find_patterns(x, b) ==
    CHOOSE r \in {[status |-> c.status, list |-> SortByValue(c.list)] :
                     c \in {Collect(found) : found \in {FindAll(x, b)}}} : TRUE

RECURSIVE BestLoop(_, _, _, _, _)
BestLoop(list, i, best_pattern, best_delta, x) ==
    IF i > Len(list) THEN best_pattern
    ELSE LET p     == list[i]
             under == BigLT(p.value, x)
             delta == IF under THEN BigSub(BigAdd(p.value, Two64), x)
                      ELSE BigSub(p.value, x)
         IN  IF under /\ overflow_checks THEN Panic
             ELSE IF BigLT(delta, best_delta)
                  THEN BestLoop(list, i + 1, p, delta, x)
                  ELSE BestLoop(list, i + 1, best_pattern, best_delta, x)

\* the closest of the patterns of find_patterns, in list order
Closest(found, x) ==
    IF found.status = "panic" THEN Panic
    ELSE BestLoop(found.list, 1, Pattern(BigZero, 0), U64Max, x)

MultiPatternFinder_find_next(x, b) ==
    CHOOSE r \in {Closest(found, x) : found \in {find_patterns(x, b)}} : TRUE

(* ---------------------------------------------------------------------- *)
(* Calendar dates (chrono::NaiveDate): [y, m, d], ordered by day number.   *)
(* ---------------------------------------------------------------------- *)
IsLeap(y) == (y % 4 = 0 /\ y % 100 # 0) \/ y % 400 = 0

DaysInMonth(y, m) ==
    IF m = 2 THEN (IF IsLeap(y) THEN 29 ELSE 28)
    ELSE IF m \in {4, 6, 9, 11} THEN 30 ELSE 31

DaysBeforeYear(y) ==
    LET p == y - 1 IN 365 * p + (p \div 4) - (p \div 100) + (p \div 400)

DaysBeforeMonth(y, m) ==
    <<0, 31, 59, 90, 120, 151, 181, 212, 243, 273, 304, 334>>[m]
        + (IF m > 2 /\ IsLeap(y) THEN 1 ELSE 0)

\* days since 0000-12-31 (num_days_from_ce)
DayNumber(date) == DaysBeforeYear(date.y) + DaysBeforeMonth(date.y, date.m) + date.d

ValidDate(date) ==
    date.m \in 1..12 /\ date.d >= 1 /\ date.d <= DaysInMonth(date.y, date.m)

\* the date with the given day number (NaiveDate + Duration)
DateOfDay(dn) ==
    LET y  == CHOOSE yy \in 1900..2200 :
                  DaysBeforeYear(yy) < dn /\ dn <= DaysBeforeYear(yy + 1)
        r  == dn - DaysBeforeYear(y)
        m  == CHOOSE mm \in 1..12 :
                  DaysBeforeMonth(y, mm) < r
                      /\ r <= DaysBeforeMonth(y, mm) + DaysInMonth(y, mm)
    IN  [y |-> y, m |-> m, d |-> r - DaysBeforeMonth(y, m)]

(* ---------------------------------------------------------------------- *)
(* TimeUnit, DeltaCandidate                                                *)
(* ---------------------------------------------------------------------- *)
\* TimeUnit::iter(), in declaration order
TimeUnit == <<"second", "minute", "hour", "day", "week", "month">>

\* Some(seconds per unit); 0 stands for None (month)
TimeUnit_to_seconds(unit) ==
    CASE unit = "second" -> 1
      [] unit = "minute" -> 60
      [] unit = "hour"   -> 60 * 60
      [] unit = "day"    -> 60 * 60 * 24
      [] unit = "week"   -> 60 * 60 * 24 * 7
      [] unit = "month"  -> 0

\* the factors of the unit's seconds, each small enough for BigMul
UnitFactors(unit) ==
    CASE unit = "second" -> <<>>
      [] unit = "minute" -> <<60>>
      [] unit = "hour"   -> <<60, 60>>
      [] unit = "day"    -> <<60, 60, 24>>
      [] unit = "week"   -> <<60, 60, 24, 7>>
      [] unit = "month"  -> <<>>

RECURSIVE MulFactors(_, _, _)
MulFactors(v, ovf, fs) ==
    IF fs = <<>> THEN [v |-> v, ovf |-> ovf]
    ELSE LET step == U64(BigMul(v, Head(fs)))
         IN  IF step.ovf THEN MulFactors(step.v, TRUE, Tail(fs))
             ELSE MulFactors(step.v, ovf, Tail(fs))

\* Some(pattern.value * seconds per unit), for a unit other than month
DeltaCandidate_to_seconds(c) == MulFactors(c.pattern.value, FALSE, UnitFactors(c.unit))

add_months_to_date(date, months) ==
    LET total == months + (date.m - 1)
        res   == [y |-> date.y + (total \div 12), m |-> (total % 12) + 1, d |-> date.d]
    IN  \* NaiveDate::from_ymd panics on a day the month does not have
        IF ValidDate(res) THEN [status |-> "ok", day |-> DayNumber(res)]
        ELSE [status |-> "panic", day |-> 0]

\* the projected date as a day number; the pattern values found for the
\* explored dates keep every quantity far inside the i64 and NaiveDate ranges
DeltaCandidate_add_to_date(c, date) ==
    IF c.unit = "month" THEN add_months_to_date(date, BigToNat(c.pattern.value))
    ELSE LET s == DeltaCandidate_to_seconds(c)
         IN  IF s.ovf /\ overflow_checks THEN [status |-> "panic", day |-> 0]
             ELSE [status |-> "ok",
                   day |-> DayNumber(date)
                             + BigToNat(BigDiv(BigDiv(BigDiv(s.v, 60), 60), 24))]

(* ---------------------------------------------------------------------- *)
(* main: candidates per (unit, base), sorted by projected date.            *)
(* ---------------------------------------------------------------------- *)
bases == <<10, 16>>

\* ceil(seconds as f64 / s): the quotients here are exact in binary64 or lie
\* at least 1/604800 from an integer, so the rounding is the integer one
UnitCount(seconds, s) == (seconds + s - 1) \div s

MonthCount(ref, cur) ==
    (cur.y - ref.y) * 12 + cur.m - ref.m + (IF cur.d > ref.d THEN 1 ELSE 0)

\* the candidates in the order main pushes them
Candidates(ref, cur) ==
    LET delta   == DayNumber(cur) - DayNumber(ref)
        seconds == (IF delta < 0 THEN 0 - delta ELSE delta) * 86400
        counted == [i \in 1..10 |->
                      LET unit == TimeUnit[((i - 1) \div 2) + 1]
                          b    == bases[((i - 1) % 2) + 1]
                      IN  [pattern |-> MultiPatternFinder_find_next(
                                          Big(UnitCount(seconds, TimeUnit_to_seconds(unit))), b),
                           unit |-> unit]]
        monthly == [i \in 1..2 |->
                      [pattern |-> MultiPatternFinder_find_next(
                                      Big(MonthCount(ref, cur)), bases[i]),
                       unit |-> "month"]]
    IN  counted \o monthly

\* the position of s[i] after a stable sort on the projected date
RankByDate(s, i) ==
    Cardinality({j \in 1..Len(s) :
                    \/ s[j].date < s[i].date
                    \/ (s[j].date = s[i].date /\ j < i)}) + 1

\* the stable sort_by on add_to_date(reference_date)
SortByDate(s) ==
    [k \in 1..Len(s) |-> s[CHOOSE i \in 1..Len(s) : RankByDate(s, i) = k]]

NoCandidate == [pattern |-> Pattern(BigZero, 0), unit |-> "none", date |-> 0]

\* the candidates with their projected dates (status: of the projection)
Projected(res, ref) ==
    [i \in 1..Len(res) |->
        LET p == DeltaCandidate_add_to_date(res[i], ref)
        IN  [pattern |-> res[i].pattern, unit |-> res[i].unit,
             date |-> p.day, status |-> p.status]]

\* the sort and the print of res.first()
Report(dated) ==
    LET res == [i \in 1..Len(dated) |->
                   [pattern |-> dated[i].pattern, unit |-> dated[i].unit]]
    IN  IF \E i \in 1..Len(dated) : dated[i].pattern.status = "panic"
        THEN [status |-> "panic", res |-> <<>>, best |-> NoCandidate]
        ELSE IF \E i \in 1..Len(dated) : dated[i].status = "panic"
        THEN [status |-> "panic", res |-> res, best |-> NoCandidate]
        ELSE LET first == SortByDate(dated)[1]
                 best  == [pattern |-> first.pattern, unit |-> first.unit,
                           date |-> first.date]
             IN  IF best.pattern.base \notin Bases
                 THEN [status |-> "panic", res |-> res, best |-> best]  \* Display of Pattern
                 ELSE [status |-> "ok", res |-> res, best |-> best]

\* res: the candidates as pushed (empty when a finder panicked);
\* best: res.first() after the sort, with its projected date
main(ref, cur) ==
    CHOOSE out \in
        {Report(dated) :
            dated \in {Projected(res, ref) : res \in {Candidates(ref, cur)}}} : TRUE

(* ---------------------------------------------------------------------- *)
(* Explored inputs.                                                        *)
(* ---------------------------------------------------------------------- *)
\* the values 1, 12, 123, ... (reverse: 1, 21, 321, ...) with len digits
RECURSIVE ProgressionLoop(_, _, _, _, _)
ProgressionLoop(res, i, len, b, reverse) ==
    IF i > len THEN res
    ELSE LET step == SequenceStep(res, i, b, reverse)
         IN  IF step.ovf THEN step.v
             ELSE ProgressionLoop(step.v, i + 1, len, b, reverse)

Progression(b, reverse, len) == ProgressionLoop(Big(1), 2, len, b, reverse)

SmallInputs == {Big(i) : i \in 1..MaxSmall}

\* m * base^k + d around the digit boundaries
BoundaryInputs(b) ==
    {BigAdd(BigMul(BigPow(b, k), m), Big(d)) :
        k \in 1..MaxPower(b), m \in {1, 2, b - 1}, d \in 0..NearDelta}
    \cup {BigSub(BigMul(BigPow(b, k), m), Big(1)) :
        k \in 1..MaxPower(b), m \in {1, 2, b - 1}}

\* the places where the binary64 digit_count changes
ThresholdInputs(b) ==
    {DigitThreshold[b][k] : k \in 1..MaxPower(b)}
    \cup {BigSub(DigitThreshold[b][k], Big(1)) : k \in 1..MaxPower(b)}
    \cup {BigAdd(DigitThreshold[b][k], Big(1)) : k \in 1..MaxPower(b)}

ProgressionInputs(b) ==
    {Progression(b, r, len) : r \in BOOLEAN, len \in 1..(b - 1)}
    \cup {BigAdd(Progression(b, r, len), Big(1)) : r \in BOOLEAN, len \in 1..(b - 1)}

Inputs(b) ==
    {x \in SmallInputs \cup BoundaryInputs(b) \cup ThresholdInputs(b)
            \cup ProgressionInputs(b) \cup {U64Max, BigSub(U64Max, Big(1))} :
        BigLE(x, U64Max)}

ReferenceDates ==
    { [y |-> 2024, m |-> 1,  d |-> 1],
      [y |-> 2023, m |-> 11, d |-> 20],
      [y |-> 2024, m |-> 1,  d |-> 31] }

ElapsedDays == (1..MaxElapsed) \cup {30, 99, 100, 400}

(* ---------------------------------------------------------------------- *)
(* The state machine: one call of one operation on one input.              *)
(* ---------------------------------------------------------------------- *)
NoDate == [y |-> 0, m |-> 0, d |-> 0]

Init ==
    /\ overflow_checks \in BOOLEAN
    /\ op = "init"
    /\ n = BigZero
    /\ base = 0
    /\ ret = [status |-> "none"]
    /\ reference_date = NoDate
    /\ cur_date = NoDate
    /\ cands = <<>>

CallRoundNumberFinder ==
    /\ op = "init"
    /\ \E b \in Bases : \E x \in Inputs(b) :
          /\ n' = x
          /\ base' = b
          /\ ret' = RoundNumberFinder_find_next(x, b)
    /\ op' = "round"
    /\ UNCHANGED <<overflow_checks, reference_date, cur_date, cands>>

CallRepeatedNumberFinder ==
    /\ op = "init"
    /\ \E b \in Bases : \E x \in Inputs(b) :
          /\ n' = x
          /\ base' = b
          /\ ret' = RepeatedNumberFinder_find_next(x, b)
    /\ op' = "repeated"
    /\ UNCHANGED <<overflow_checks, reference_date, cur_date, cands>>

CallSequenceFinder ==
    /\ op = "init"
    /\ \E reverse \in BOOLEAN : \E b \in Bases : \E x \in Inputs(b) :
          /\ n' = x
          /\ base' = b
          /\ ret' = SequenceFinder_find_next(reverse, x, b)
          /\ op' = IF reverse THEN "descending" ELSE "ascending"
    /\ UNCHANGED <<overflow_checks, reference_date, cur_date, cands>>

CallFindPatterns ==
    /\ op = "init"
    /\ \E b \in Bases : \E x \in Inputs(b) :
          /\ n' = x
          /\ base' = b
          /\ ret' = find_patterns(x, b)
    /\ op' = "find_patterns"
    /\ UNCHANGED <<overflow_checks, reference_date, cur_date, cands>>

CallMultiFindNext ==
    /\ op = "init"
    /\ \E b \in Bases : \E x \in Inputs(b) :
          /\ n' = x
          /\ base' = b
          /\ ret' = MultiPatternFinder_find_next(x, b)
    /\ op' = "find_next"
    /\ UNCHANGED <<overflow_checks, reference_date, cur_date, cands>>

Main ==
    /\ op = "init"
    /\ \E ref \in ReferenceDates : \E e \in ElapsedDays :
          \E cur \in {DateOfDay(DayNumber(ref) + e)} :
             \E out \in {main(ref, cur)} :
                /\ reference_date' = ref
                /\ cur_date' = cur
                /\ cands' = out.res
                /\ ret' = [status |-> out.status, best |-> out.best]
    /\ op' = "main"
    /\ UNCHANGED <<overflow_checks, n, base>>


Next ==
    \/ CallRoundNumberFinder
    \/ CallRepeatedNumberFinder
    \/ CallSequenceFinder
    \/ CallFindPatterns
    \/ CallMultiFindNext
    \/ Main

Spec == Init /\ [][Next]_vars

(* ---------------------------------------------------------------------- *)
(* Properties.                                                             *)
(* ---------------------------------------------------------------------- *)
Returned == ret.status = "ok"

\* n - 1 of the explored call (n >= 1)
Pred == BigSub(n, Big(1))

\* the numbers d * base^j: one non-zero digit followed only by zeros
RoundNumbers(b) ==
    {BigMul(BigPow(b, j), d) : j \in 0..MaxPower(b), d \in 1..(b - 1)}
        \cup {BigPow(b, MaxPower(b) + 1)}

\* 11...1 with k digits in the base
Repunit(b, k) == BigDiv(BigSub(BigPow(b, k), Big(1)), b - 1)

\* the lengths of the progression 1, 12, 123, ... whose value reaches x
Reaching(x, b, reverse) ==
    {len \in 1..(b - 1) : BigLE(x, Progression(b, reverse, len))}

Shortest(S) == CHOOSE len \in S : \A other \in S : len <= other

ElapsedDayCount == DayNumber(cur_date) - DayNumber(reference_date)

\* main pushes the candidates unit by unit, base 10 before base 16
DayBase10 == 7

\* C1: every result of the four finders is the sentinel, or a value >= n
\* in the requested base.
C1_FinderResultAtLeastN ==
    op \in {"round", "repeated", "ascending", "descending"} =>
        /\ Returned
        /\ \/ ret.value = BigZero
           \/ BigLE(n, ret.value) /\ ret.base = base

\* C2: with 2 <= digit_count(n - 1) <= 19 the round-number finder returns
\* the smallest number >= n that is one non-zero digit followed by zeros.
C2_RoundIsSmallestRoundNumber ==
    (op = "round" /\ digit_count(Pred, base) \in 2..MAX_EXPONENT) =>
        /\ Returned
        /\ ret.value \in RoundNumbers(base)
        /\ BigLE(n, ret.value)
        /\ \A r \in RoundNumbers(base) : BigLE(n, r) => BigLE(ret.value, r)

\* C3: with digit_count(n - 1) < 2 or > 19 the round-number finder returns
\* the sentinel, as a normal return.
C3_RoundSentinelReturned ==
    (op = "round" /\ (digit_count(Pred, base) < 2
                        \/ digit_count(Pred, base) > MAX_EXPONENT)) =>
        Returned /\ ret.value = BigZero

\* C4: the repeated-digit finder returns the smallest repdigit with
\* digit_count(n) digits that is >= n, its digit being one of 1..base-1.
C4_RepeatedIsSmallestRepdigit ==
    op = "repeated" =>
        LET unit == Repunit(base, digit_count(n, base))
        IN  /\ Returned
            /\ \E d \in 1..(base - 1) : ret.value = BigMul(unit, d)
            /\ BigLE(n, ret.value)
            /\ \A d \in 1..(base - 1) :
                   BigLE(n, BigMul(unit, d)) => BigLE(ret.value, BigMul(unit, d))

\* C5: the sequence finder returns the first value of its progression
\* (built through digit base-1) that is >= n, and the sentinel only when no
\* value of the progression, the last one included, reaches n.
C5_SequenceFirstReaching ==
    op \in {"ascending", "descending"} =>
        LET reach == Reaching(n, base, op = "descending")
        IN  /\ Returned
            /\ IF reach = {} THEN ret.value = BigZero
               ELSE ret.value = Progression(base, op = "descending", Shortest(reach))

\* C6: MultiPatternFinder::find_next returns an element of find_patterns
\* with minimal value - n (no underflow), and the sentinel exactly when
\* find_patterns is empty.
C6_NearestOfFindPatterns ==
    op = "find_next" =>
        LET found == find_patterns(n, base)
        IN  /\ Returned
            /\ found.status = "ok"
            /\ (ret.value = BigZero) <=> (found.list = <<>>)
            /\ found.list # <<>> =>
                  /\ \E i \in 1..Len(found.list) : found.list[i] = ret
                  /\ \A i \in 1..Len(found.list) :
                        /\ BigLE(n, found.list[i].value)
                        /\ BigLE(ret.value, found.list[i].value)

\* C7: the list find_patterns returns holds exactly the non-sentinel
\* results of the registered finders (duplicates kept), none with value 0,
\* sorted ascending by value.
C7_FindPatternsFilteredSorted ==
    (op = "find_patterns" /\ Returned) =>
        LET finders == MultiPatternFinder_new
            raw     == [i \in 1..Len(finders) |->
                          PatternFinder_find_next(finders[i], n, base)]
            list    == ret.list
        IN  /\ \A i \in 1..Len(list) : list[i].value # BigZero
            /\ \A i \in 1..Len(list) : \A j \in i..Len(list) :
                  BigLE(list[i].value, list[j].value)
            /\ \A i \in 1..Len(finders) :
                  raw[i].value # BigZero =>
                      Cardinality({j \in 1..Len(list) : list[j] = raw[i]})
                          = Cardinality({j \in 1..Len(finders) : raw[j] = raw[i]})
            /\ \A j \in 1..Len(list) : \E i \in 1..Len(finders) : raw[i] = list[j]

\* C7 witness: a call that returned after dropping a sentinel and
\* reordering what the finders produced.
C7_Witness ==
    /\ op = "find_patterns"
    /\ Returned
    /\ Len(ret.list) >= 2
    /\ Len(ret.list) < Len(MultiPatternFinder_new)
    /\ BigLT(ret.list[1].value, RoundNumberFinder_find_next(n, base).value)
    /\ RoundNumberFinder_find_next(n, base).value # BigZero

\* C8 as stated: with 99 elapsed days the day candidate for base 10 is
\* 100 days, projected to reference_date + 100 days.
C8_DayCandidateIs100 ==
    (op = "main" /\ ElapsedDayCount = 99) =>
        /\ Len(cands) >= DayBase10
        /\ cands[DayBase10].unit = "day"
        /\ cands[DayBase10].pattern = Pattern(Big(100), 10)
        /\ DeltaCandidate_add_to_date(cands[DayBase10], reference_date)
              = [status |-> "ok", day |-> DayNumber(reference_date) + 100]

\* C8 amended: with 99 elapsed days the day candidate for base 10 is
\* 99 days (the repeated digit 99 is already >= 99), projected to
\* reference_date + 99 days.
C8_DayCandidateIs99 ==
    (op = "main" /\ ElapsedDayCount = 99) =>
        /\ Len(cands) >= DayBase10
        /\ cands[DayBase10].unit = "day"
        /\ cands[DayBase10].pattern = Pattern(Big(99), 10)
        /\ DeltaCandidate_add_to_date(cands[DayBase10], reference_date)
              = [status |-> "ok", day |-> DayNumber(reference_date) + 99]

\* C8 witness: main ran to its result on a reference date 99 days back.
C8_Witness ==
    /\ op = "main"
    /\ ElapsedDayCount = 99
    /\ Returned
    /\ Len(cands) = 12

\* C9: the product of the round-number finder's non-sentinel branch and
\* every accumulated value of the sequence finder stay below 2^64.
C9_NoOverflow ==
    /\ (op = "round" /\ digit_count(Pred, base) \in 2..MAX_EXPONENT) =>
          ~RoundProduct(first_digit(Pred, base).digit, digit_count(Pred, base), base).ovf
    /\ op \in {"ascending", "descending"} =>
          \A len \in 1..(base - 2) :
              ~SequenceStep(Progression(base, op = "descending", len),
                            len + 1, base, op = "descending").ovf

\* C10: for a reference date before the current date main completes with
\* a winner whose projected date is the earliest of all candidates' and is
\* not before the current date.
C10_MainPicksEarliest ==
    op = "main" =>
        /\ Returned
        /\ Len(cands) = 12
        /\ \A i \in 1..Len(cands) :
              LET projected == DeltaCandidate_add_to_date(cands[i], reference_date)
              IN  projected.status = "ok" /\ ret.best.date <= projected.day
        /\ ret.best.date >= DayNumber(cur_date)

====
